---- MODULE Spec2Model ----
(***************************************************************************)
(* The aggregation pipeline of missed_sales_dashboard_v2.py: four loaded   *)
(* tables (missed sales, actual sales, customers, postal lookup) are       *)
(* cleaned, joined and grouped into the tables behind the charts.          *)
(*                                                                         *)
(* A data frame is a sequence of rows, a row is a record of cells, and a   *)
(* cell is a tagged value, so that a text "5" and the number 5, or a date  *)
(* text and the timestamp parsed from it, are different cells.  A grouped  *)
(* table is the set of its rows: pandas orders a grouped table by its      *)
(* group keys, so the rows determine the table.                            *)
(***************************************************************************)
EXTENDS Integers, Sequences, FiniteSets, TLC

(***************************************************************************)
(* Cells.                                                                  *)
(***************************************************************************)
\* NaN / None / NaT: the missing value of pandas.
NaN == [t |-> "null"]
\* A text cell.
S(s) == [t |-> "str", v |-> s]
\* A numeric cell.
N(n) == [t |-> "num", v |-> n]
\* A Timestamp cell (midnight of a day).
Timestamp(y, m, d) == [t |-> "ts", y |-> y, m |-> m, d |-> d]
\* A monthly Period cell.
Period(y, m) == [t |-> "period", y |-> y, m |-> m]

isna(x) == x.t = "null"

\* The date texts the model's inputs use, with the day each one denotes.
DateTexts ==
  ("2024-01-15" :> Timestamp(2024, 1, 15)) @@
  ("2024-02-03" :> Timestamp(2024, 2, 3))

\* The numeric texts the model's inputs use, with the number each one denotes.
NumericTexts == ("5" :> 5) @@ ("3" :> 3)

\* pd.to_datetime(..., errors='coerce') on one cell.
to_datetime(x) ==
  IF x.t = "ts" THEN x
  ELSE IF x.t = "str" /\ x.v \in DOMAIN DateTexts THEN DateTexts[x.v]
  ELSE NaN

\* pd.to_numeric(..., errors='coerce') on one cell.
to_numeric(x) ==
  IF x.t = "num" THEN x
  ELSE IF x.t = "str" /\ x.v \in DOMAIN NumericTexts THEN N(NumericTexts[x.v])
  ELSE NaN

\* Series.astype(str) on one cell: a number is formatted, a missing value
\* becomes the text "nan".
astype_str(x) ==
  IF x.t = "str" THEN x
  ELSE IF x.t = "num" THEN S(ToString(x.v))
  ELSE S("nan")

\* Series.dt.to_period('M') on one cell.
to_period(x) == IF x.t = "ts" THEN Period(x.y, x.m) ELSE NaN

(***************************************************************************)
(* The two translation dictionaries.                                       *)
(***************************************************************************)
reason_translation ==
  ("Product niet verkrijgbaar bij leverancier" :> "Product not available from supplier") @@
  ("Product ontbreekt hier, maar nog aanwezig in andere eenheid (niet doorbesteld)" :>
     "Product missing here but present in another unit (not reordered)") @@
  ("aantal aangepast omwille van quota" :> "quantity adjusted due to quota") @@
  ("dels doorbesteld" :> "dels reordered") @@
  ("doorbesteld" :> "reordered") @@
  ("geen prodcode SH,SD,SV,CH, CV voor webshop" :> "no prodcode SH,SD,SV,CH, CV for webshop") @@
  ("klanten met leveringsplicht enkel prodcode SH,SD,SV,CH, CV" :>
     "customers with delivery obligation only prodcode SH,SD,SV,CH, CV") @@
  ("product geblokkeerd voor deze klant /selective distributie" :>
     "product blocked for this customer / selective distribution") @@
  ("product is vervangen" :> "product has been replaced") @@
  ("product mag bidir niet besteld worden of enkel TO" :>
     "product may not be ordered bidir or only TO") @@
  ("stock 0" :> "stock 0") @@
  ("stock 0 omwille van quota" :> "stock 0 due to quota") @@
  ("substitutieproduct zal geleverd worden" :> "substitute product will be delivered") @@
  ("vervangingsproduct zal geleverd worden" :> "replacement product will be delivered") @@
  ("Product is uit de handel (stocktoeak = UH)" :> "Product is out of business (stocktoeak = UH)") @@
  ("code niet doorbestellen stat op bij product" :> "code do not reorder listed on product") @@
  ("fout bij read" :> "error during read") @@
  ("product op vloer dus niet doorbestellen" :> "product on floor so do not reorder") @@
  ("niet doorbestellen dus aantal aangepast" :> "do not reorder, so quantity adjusted") @@
  ("tot lijnen > 99999" :> "up to lines > 99999")

customer_type_translations ==
  ("Diversen" :> "Various") @@
  ("Kliniek" :> "Clinic") @@
  ("Lid" :> "Member") @@
  ("Leveringsplicht" :> "Delivery Duty") @@
  ("Niet lid" :> "Non-member") @@
  ("Personeel" :> "Staff") @@
  ("Speciale klanten EXPORT" :> "Special Customers EXPORT") @@
  ("Transfer Orders" :> "Transfer Orders") @@
  ("Vergunninghouder" :> "Permit Holder") @@
  ("Webshop" :> "Webshop")

\* Series.map(dict) on one cell: a label that is no key of the dictionary
\* becomes NaN.
map_dict(d, x) ==
  IF x.t = "str" /\ x.v \in DOMAIN d THEN S(d[x.v]) ELSE NaN

\* Series.replace(dict) on one cell: a label that is no key of the
\* dictionary is left as it is.
replace_dict(d, x) ==
  IF x.t = "str" /\ x.v \in DOMAIN d THEN S(d[x.v]) ELSE x

(***************************************************************************)
(* Data-frame operations.  A column is named by its text, and row[col] is  *)
(* the cell of a row in that column.                                       *)
(***************************************************************************)
RECURSIVE concat(_)
\* The concatenation of a sequence of frames, in order.
concat(dfs) == IF dfs = <<>> THEN <<>> ELSE Head(dfs) \o concat(Tail(dfs))

\* The result of a sum that raised TypeError.
TypeError == [t |-> "TypeError"]

\* Python's a + b on two cells, as the sum of a column applies it: numbers
\* add, texts concatenate, a number and a text raise TypeError.
add(a, b) ==
  IF a.t = "num" /\ b.t = "num" THEN N(a.v + b.v)
  ELSE IF a.t = "str" /\ b.t = "str" THEN S(a.v \o b.v)
  ELSE TypeError

RECURSIVE fold_add(_, _)
fold_add(acc, cells) ==
  IF cells = <<>> THEN acc ELSE fold_add(add(acc, Head(cells)), Tail(cells))

\* GroupBy.sum() of one group's column: missing values are skipped, the
\* other cells are added in row order, and a group without any value sums to 0.
series_sum(cells) ==
  LET present == SelectSeq(cells, LAMBDA c : ~isna(c))
  IN IF present = <<>> THEN N(0) ELSE fold_add(Head(present), Tail(present))

\* The key of a row under groupby(by): its cells in the columns by.
group_key(row, by) == [j \in DOMAIN by |-> row[by[j]]]

\* The group keys of df.groupby(by): the keys of the rows, without those
\* that hold a missing value (dropna=True).
group_keys(df, by) ==
  {k \in {group_key(df[i], by) : i \in DOMAIN df} : \A j \in DOMAIN k : ~isna(k[j])}

\* The cells of column col in the group of key k, in row order.
group_cells(df, by, col, k) ==
  LET g == SelectSeq(df, LAMBDA r : group_key(r, by) = k)
  IN [i \in DOMAIN g |-> g[i][col]]

\* df.groupby(by)[col].sum().reset_index(name=total): one row per group key,
\* with the key columns and the sum of col in column total.
groupby_sum(df, by, col, total) ==
  {[c \in {by[j] : j \in DOMAIN by} |-> k[CHOOSE j \in DOMAIN by : by[j] = c]]
     @@ (total :> series_sum(group_cells(df, by, col, k)))
   : k \in group_keys(df, by)}

\* A join that pairs every left row with every customer row.
merge_cross(left, right) ==
  concat([i \in DOMAIN left |-> [j \in DOMAIN right |-> left[i] @@ right[j]]])

\* pd.merge(left, customers, on='CustomerNbr', how='inner'): every left row
\* with every customer row of the same CustomerNbr, in left order.
merge_inner(left, right) ==
  concat([i \in DOMAIN left |->
            LET hits == SelectSeq(right,
                          LAMBDA r : r.CustomerNbr = left[i].CustomerNbr)
            IN [j \in DOMAIN hits |-> left[i] @@ hits[j]]])

\* The postal columns the left join attaches to the row l.
with_coordinates(l, p) ==
  l @@ [Latitude |-> p.Latitude, Longitude |-> p.Longitude]

\* A join that pairs every left row with every postal row.
merge_postal_cross(left, postal) ==
  concat([i \in DOMAIN left |->
            IF postal = <<>>
            THEN <<left[i] @@ [Latitude |-> NaN, Longitude |-> NaN]>>
            ELSE [j \in DOMAIN postal |-> with_coordinates(left[i], postal[j])]])

\* left.merge(postal[[code, Latitude, Longitude]], on='CustomerPostalCode',
\* how='left'): every left row with every postal row of the same code, and a
\* left row without one with missing coordinates.
merge_left(left, postal) ==
  concat([i \in DOMAIN left |->
            LET hits == SelectSeq(postal,
                          LAMBDA p : p.CustomerPostalCode = left[i].CustomerPostalCode)
            IN IF hits = <<>>
               THEN <<left[i] @@ [Latitude |-> NaN, Longitude |-> NaN]>>
               ELSE [j \in DOMAIN hits |-> with_coordinates(left[i], hits[j])]])

\* Series.fillna(0) on one cell.
fillna0(x) == IF isna(x) THEN N(0) ELSE x

(***************************************************************************)
(* The steps of the script, each as a function of the frames it reads.     *)
(***************************************************************************)
\* A conversion that also drops the rows whose date does not parse.
ConvertDateDropNaT(df) ==
  SelectSeq([i \in DOMAIN df |-> [df[i] EXCEPT !.Date = to_datetime(@)]],
            LAMBDA r : ~isna(r.Date))

\* df['Date'] = pd.to_datetime(df['Date'], errors='coerce')
ConvertDate(df) ==
  [i \in DOMAIN df |-> [df[i] EXCEPT !.Date = to_datetime(@)]]

\* missed_sales[missed_sales['GEMISTEVERKOOPFLG'] == 1].copy()
FilterFlag(df) == SelectSeq(df, LAMBDA r : r.GEMISTEVERKOOPFLG = N(1))

\* df['Reason'] = df['Reason'].map(reason_translation)
TranslateReason(df) ==
  [i \in DOMAIN df |-> [df[i] EXCEPT !.Reason = map_dict(reason_translation, @)]]

\* dropna(subset=['Date', 'Reason']), Reason as str, AantalBesteld to
\* numeric, and the DatePeriod column.
CleanMissed(df) ==
  LET kept == SelectSeq(df, LAMBDA r : ~isna(r.Date) /\ ~isna(r.Reason))
  IN [i \in DOMAIN kept |->
        [kept[i] EXCEPT !.Reason = astype_str(@),
                        !.AantalBesteld = to_numeric(@)]
        @@ [DatePeriod |-> to_period(kept[i].Date)]]

\* groupby(['DatePeriod', 'Reason'], as_index=False).sum(numeric_only=True),
\* and Date as the first day of the period.
GroupByTimeReason(df) ==
  {r @@ [Date |-> Timestamp(r.DatePeriod.y, r.DatePeriod.m, 1)]
   : r \in groupby_sum(df, <<"DatePeriod", "Reason">>, "AantalBesteld",
                       "AantalBesteld")}

\* df['CustomerTypeTranslated'] = df['CustomerType'].replace(dict)
TranslateCustomerType(df) ==
  [i \in DOMAIN df |->
     df[i] @@ [CustomerTypeTranslated |->
                 replace_dict(customer_type_translations, df[i].CustomerType)]]

\* groupby('CustomerTypeTranslated')[col].sum().reset_index(name=...); the
\* model names the total column of every bar-chart and map table Total.
GroupByCustomerType(df, col) ==
  groupby_sum(df, <<"CustomerTypeTranslated">>, col, "Total")

\* groupby('CustomerCity')[col].sum().reset_index(name=...)
GroupByCity(df, col) == groupby_sum(df, <<"CustomerCity">>, col, "Total")

\* customer_data[col] = customer_data[col].astype(str) for both text columns
CastCustomer(df) ==
  [i \in DOMAIN df |-> [df[i] EXCEPT !.CustomerCity = astype_str(@),
                                     !.CustomerPostalCode = astype_str(@)]]

\* postal_code_data['CustomerPostalCode'] = ....astype(str)
CastPostal(df) ==
  [i \in DOMAIN df |-> [df[i] EXCEPT !.CustomerPostalCode = astype_str(@)]]

\* The inner join of the DuckDB queries, as it reads the two files; the rows
\* are taken in file order.
duckdb_join(events, customers) ==
  concat([i \in DOMAIN events |->
            LET hits == SelectSeq(customers,
                          LAMBDA c : c.CustomerNbr = events[i].CustomerNbr)
            IN [j \in DOMAIN hits |-> events[i] @@ hits[j]]])

\* missed_sales_query and the two astype(str) casts of its result.
QueryMissed(missed, customers) ==
  LET j == duckdb_join(SelectSeq(missed, LAMBDA r : r.GEMISTEVERKOOPFLG = N(1)),
                       customers)
  IN [i \in DOMAIN j |->
        [CustomerNbr |-> j[i].CustomerNbr,
         AantalBesteld |-> j[i].AantalBesteld,
         Date |-> j[i].Date,
         CustomerCity |-> astype_str(j[i].CustomerCity),
         CustomerPostalCode |-> astype_str(j[i].CustomerPostalCode)]]

\* actual_sales_query and the two astype(str) casts of its result.
QueryActual(sales, customers) ==
  LET j == duckdb_join(sales, customers)
  IN [i \in DOMAIN j |->
        [CustomerNbr |-> j[i].CustomerNbr,
         SaleQuantity |-> j[i].SaleQuantity,
         Date |-> j[i].Date,
         CustomerCity |-> astype_str(j[i].CustomerCity),
         CustomerPostalCode |-> astype_str(j[i].CustomerPostalCode)]]

\* df[col] = df[col].fillna(0).astype(float) for Latitude and Longitude
FillCoordinates(df) ==
  [i \in DOMAIN df |-> [df[i] EXCEPT !.Latitude = fillna0(@),
                                     !.Longitude = fillna0(@)]]

\* A filter that keeps every row.
FilterGeoKeepAll(df) == df

\* df[(df['Latitude'] != 0) & (df['Longitude'] != 0)].copy()
FilterGeo(df) ==
  SelectSeq(df, LAMBDA r : r.Latitude # N(0) /\ r.Longitude # N(0))

\* groupby(['CustomerCity', 'Latitude', 'Longitude'])[col].sum()
\*   .reset_index(name=...)
GroupByCityGeo(df, col) ==
  groupby_sum(df, <<"CustomerCity", "Latitude", "Longitude">>, col, "Total")

\* x / 10000 without the floor of 1.
MarkerSizeUnfloored(x) == x

\* lambda x: max(x / 10000, 1), in ten-thousandths: x / 10000 is x
\* ten-thousandths and 1 is 10000 of them, so the scaled value is exact.
MarkerSize(x) == IF x > 10000 THEN x ELSE 10000

\* df['MarkerSize'] = df[total].apply(lambda x: max(x / 10000, 1))
AddMarkerSize(tbl) ==
  {r @@ [MarkerSize |-> N(MarkerSize(r.Total.v))] : r \in tbl}

\* x / 10000 raises TypeError on a total that is no number.
MarkerSizeRaises(tbl) == \E r \in tbl : r.Total.t # "num"

(***************************************************************************)
(* The state: the four files, the frames loaded from them, and the frames  *)
(* and grouped tables the script derives, under the script's own names.    *)
(* The script assigns missed_sales_merged, actual_sales_merged,            *)
(* missed_sales_clean, missed_sales_by_city and actual_sales_by_city twice.*)
(***************************************************************************)
VARIABLES
  missed_sales_file, customer_file, sales_file, postal_code_file,
  missed_sales, customer_data, actual_sales, postal_code_data,
  missed_sales_filtered, missed_sales_clean, actual_sales_clean,
  missed_sales_by_time_reason,
  missed_sales_merged, actual_sales_merged,
  missed_sales_by_customer_type, actual_sales_by_customer_type,
  missed_sales_by_city, actual_sales_by_city,
  pc

files == <<missed_sales_file, customer_file, sales_file, postal_code_file>>
loaded == <<missed_sales, customer_data, actual_sales, postal_code_data>>
derived ==
  <<missed_sales_filtered, missed_sales_clean, actual_sales_clean,
    missed_sales_by_time_reason, missed_sales_merged, actual_sales_merged,
    missed_sales_by_customer_type, actual_sales_by_customer_type,
    missed_sales_by_city, actual_sales_by_city>>
vars == <<files, loaded, derived, pc>>

(***************************************************************************)
(* The inputs.                                                             *)
(***************************************************************************)
\* The most rows a sale-event file or the postal lookup holds.
MaxRows == 2

\* All frames of at most n rows drawn from Rows.
Frames(Rows, n) == UNION {[1..k -> Rows] : k \in 0..n}

\* A parquet column has one type: the quantities of a file are all numbers
\* (or missing) or all texts.
OneType(df, col) ==
  \/ \A i \in DOMAIN df : df[i][col].t \in {"num", "null"}
  \/ \A i \in DOMAIN df : df[i][col].t = "str"

\* CustomerNbr is the unique key of the customer file.
UniqueKey(df) ==
  \A i, j \in DOMAIN df : df[i].CustomerNbr = df[j].CustomerNbr => i = j

CustomerNbrs == {N(1), N(2)}
Jan15 == S("2024-01-15")
Feb03 == S("2024-02-03")

\* Missed-sale rows that differ in customer, date, flag and reason.
MissedRowsByReason ==
  [CustomerNbr : CustomerNbrs, AantalBesteld : {N(20000)},
   Date : {Jan15, Feb03, S("geen datum"), NaN},
   GEMISTEVERKOOPFLG : {N(1)},
   Reason : {S("stock 0"), S("doorbesteld"), S("onbekend"), NaN}]
  \cup
  [CustomerNbr : {N(1)}, AantalBesteld : {N(20000)}, Date : {Jan15},
   GEMISTEVERKOOPFLG : {N(0)}, Reason : {S("stock 0")}]

\* Missed-sale rows that differ in customer, quantity, flag and reason.
MissedRowsByQuantity ==
  [CustomerNbr : CustomerNbrs,
   AantalBesteld : {N(-7), N(20000), S("5"), S("x")}, Date : {Jan15},
   GEMISTEVERKOOPFLG : {N(0), N(1)}, Reason : {S("stock 0"), S("doorbesteld")}]

SaleRows ==
  [CustomerNbr : CustomerNbrs,
   SaleQuantity : {N(-7), N(7), N(20000), S("5"), S("x")}, Date : {Jan15, NaN}]

CustomerRows ==
  [CustomerNbr : CustomerNbrs, CustomerType : {S("Lid"), S("Groothandel")},
   CustomerCity : {S("Gent"), S("Brugge")},
   CustomerPostalCode : {N(9000), N(8000)}]

PostalRows ==
  [CustomerPostalCode : {N(9000), S("9000"), N(1000)}, Latitude : {N(51), NaN},
   Longitude : {N(4), N(0)}]

\* The reference files: the files a slice of the inputs does not vary.
SomeMissed ==
  {<<[CustomerNbr |-> N(1), AantalBesteld |-> N(20000), Date |-> Jan15,
      GEMISTEVERKOOPFLG |-> N(1), Reason |-> S("stock 0")],
     [CustomerNbr |-> N(2), AantalBesteld |-> N(-7), Date |-> Feb03,
      GEMISTEVERKOOPFLG |-> N(1), Reason |-> S("doorbesteld")]>>}

SomeSales ==
  {<<[CustomerNbr |-> N(1), SaleQuantity |-> N(20000), Date |-> Jan15],
     [CustomerNbr |-> N(2), SaleQuantity |-> N(-7), Date |-> NaN]>>}

SomeCustomers ==
  {<<[CustomerNbr |-> N(1), CustomerType |-> S("Lid"),
      CustomerCity |-> S("Gent"), CustomerPostalCode |-> N(9000)]>>,
   <<[CustomerNbr |-> N(1), CustomerType |-> S("Lid"),
      CustomerCity |-> S("Gent"), CustomerPostalCode |-> N(9000)],
     [CustomerNbr |-> N(2), CustomerType |-> S("Groothandel"),
      CustomerCity |-> S("Brugge"), CustomerPostalCode |-> N(8000)]>>}

SomePostal ==
  {<<[CustomerPostalCode |-> N(9000), Latitude |-> N(51), Longitude |-> N(4)]>>}

\* The frames of a sale-event file: at most MaxRows rows, the quantity column
\* of one type.
EventFrames(Rows, col) == {df \in Frames(Rows, MaxRows) : OneType(df, col)}

\* The inputs: one file ranges over all its frames, the three others are
\* reference files.
InitFiles ==
  \/ /\ missed_sales_file \in
          EventFrames(MissedRowsByReason, "AantalBesteld")
          \cup EventFrames(MissedRowsByQuantity, "AantalBesteld")
     /\ sales_file \in SomeSales
     /\ customer_file \in SomeCustomers
     /\ postal_code_file \in SomePostal
  \/ /\ missed_sales_file \in SomeMissed
     /\ sales_file \in EventFrames(SaleRows, "SaleQuantity")
     /\ customer_file \in SomeCustomers
     /\ postal_code_file \in SomePostal
  \/ /\ missed_sales_file \in SomeMissed
     /\ sales_file \in SomeSales
     /\ customer_file \in {df \in Frames(CustomerRows, 2) : UniqueKey(df)}
     /\ postal_code_file \in SomePostal
  \/ /\ missed_sales_file \in SomeMissed
     /\ sales_file \in SomeSales
     /\ customer_file \in SomeCustomers
     /\ postal_code_file \in Frames(PostalRows, MaxRows)

\* The state after the four loads of lines 57-60.
Init ==
  /\ InitFiles
  /\ missed_sales = missed_sales_file
  /\ customer_data = customer_file
  /\ actual_sales = sales_file
  /\ postal_code_data = postal_code_file
  /\ missed_sales_filtered = <<>>
  /\ missed_sales_clean = <<>>
  /\ actual_sales_clean = <<>>
  /\ missed_sales_by_time_reason = {}
  /\ missed_sales_merged = <<>>
  /\ actual_sales_merged = <<>>
  /\ missed_sales_by_customer_type = {}
  /\ actual_sales_by_customer_type = {}
  /\ missed_sales_by_city = {}
  /\ actual_sales_by_city = {}
  /\ pc = "convert_dates"

(***************************************************************************)
(* The steps of the script, in its order.                                  *)
(***************************************************************************)
\* Lines 67-68: both Date columns are parsed in place.
ConvertDates ==
  /\ pc = "convert_dates"
  /\ missed_sales' = ConvertDate(missed_sales)
  /\ actual_sales' = ConvertDate(actual_sales)
  /\ pc' = "filter_flag"
  /\ UNCHANGED <<files, customer_data, postal_code_data, derived>>

\* Line 71: the rows flagged as missed sales.
FilterMissedFlag ==
  /\ pc = "filter_flag"
  /\ missed_sales_filtered' = FilterFlag(missed_sales)
  /\ pc' = "translate_reason"
  /\ UNCHANGED <<files, loaded, missed_sales_clean, actual_sales_clean,
                 missed_sales_by_time_reason, missed_sales_merged,
                 actual_sales_merged, missed_sales_by_customer_type,
                 actual_sales_by_customer_type, missed_sales_by_city,
                 actual_sales_by_city>>

\* Line 98: Reason is translated in place.
TranslateReasons ==
  /\ pc = "translate_reason"
  /\ missed_sales_filtered' = TranslateReason(missed_sales_filtered)
  /\ pc' = "clean_missed"
  /\ UNCHANGED <<files, loaded, missed_sales_clean, actual_sales_clean,
                 missed_sales_by_time_reason, missed_sales_merged,
                 actual_sales_merged, missed_sales_by_customer_type,
                 actual_sales_by_customer_type, missed_sales_by_city,
                 actual_sales_by_city>>

\* Lines 105-114: the rows with a Date and a Reason, their quantity numeric.
CleanMissedSales ==
  /\ pc = "clean_missed"
  /\ missed_sales_clean' = CleanMissed(missed_sales_filtered)
  /\ pc' = "group_time_reason"
  /\ UNCHANGED <<files, loaded, missed_sales_filtered, actual_sales_clean,
                 missed_sales_by_time_reason, missed_sales_merged,
                 actual_sales_merged, missed_sales_by_customer_type,
                 actual_sales_by_customer_type, missed_sales_by_city,
                 actual_sales_by_city>>

\* Lines 117-124: the table of the line chart.
GroupMissedByTimeReason ==
  /\ pc = "group_time_reason"
  /\ missed_sales_by_time_reason' = GroupByTimeReason(missed_sales_clean)
  /\ pc' = "merge_customers"
  /\ UNCHANGED <<files, loaded, missed_sales_filtered, missed_sales_clean,
                 actual_sales_clean, missed_sales_merged, actual_sales_merged,
                 missed_sales_by_customer_type, actual_sales_by_customer_type,
                 missed_sales_by_city, actual_sales_by_city>>

\* Lines 152-155: both event frames are joined to the customers.
MergeCustomers ==
  /\ pc = "merge_customers"
  /\ missed_sales_merged' = merge_inner(missed_sales_clean, customer_data)
  /\ actual_sales_merged' = merge_inner(actual_sales, customer_data)
  /\ pc' = "translate_customer_type"
  /\ UNCHANGED <<files, loaded, missed_sales_filtered, missed_sales_clean,
                 actual_sales_clean, missed_sales_by_time_reason,
                 missed_sales_by_customer_type, actual_sales_by_customer_type,
                 missed_sales_by_city, actual_sales_by_city>>

\* Lines 172-173: the translated customer type is added to both frames.
TranslateCustomerTypes ==
  /\ pc = "translate_customer_type"
  /\ missed_sales_merged' = TranslateCustomerType(missed_sales_merged)
  /\ actual_sales_merged' = TranslateCustomerType(actual_sales_merged)
  /\ pc' = "group_customer_type"
  /\ UNCHANGED <<files, loaded, missed_sales_filtered, missed_sales_clean,
                 actual_sales_clean, missed_sales_by_time_reason,
                 missed_sales_by_customer_type, actual_sales_by_customer_type,
                 missed_sales_by_city, actual_sales_by_city>>

\* Lines 180-181: the tables of the two customer-type bar charts.
GroupSalesByCustomerType ==
  /\ pc = "group_customer_type"
  /\ missed_sales_by_customer_type' =
       GroupByCustomerType(missed_sales_merged, "AantalBesteld")
  /\ actual_sales_by_customer_type' =
       GroupByCustomerType(actual_sales_merged, "SaleQuantity")
  /\ pc' = "group_city"
  /\ UNCHANGED <<files, loaded, missed_sales_filtered, missed_sales_clean,
                 actual_sales_clean, missed_sales_by_time_reason,
                 missed_sales_merged, actual_sales_merged,
                 missed_sales_by_city, actual_sales_by_city>>

\* Lines 215-216: the tables of the two city bar charts.
GroupSalesByCity ==
  /\ pc = "group_city"
  /\ missed_sales_by_city' =
       GroupByCity(missed_sales_merged, "AantalBesteld")
  /\ actual_sales_by_city' =
       GroupByCity(actual_sales_merged, "SaleQuantity")
  /\ pc' = "cast_strings"
  /\ UNCHANGED <<files, loaded, missed_sales_filtered, missed_sales_clean,
                 actual_sales_clean, missed_sales_by_time_reason,
                 missed_sales_merged, actual_sales_merged,
                 missed_sales_by_customer_type, actual_sales_by_customer_type>>

\* Lines 247-249: the city and postal-code columns are cast to str in place.
CastToString ==
  /\ pc = "cast_strings"
  /\ customer_data' = CastCustomer(customer_data)
  /\ postal_code_data' = CastPostal(postal_code_data)
  /\ pc' = "query_duckdb"
  /\ UNCHANGED <<files, missed_sales, actual_sales, derived>>

\* Lines 252-274: both event files are joined to the customer file anew.
QueryDuckDB ==
  /\ pc = "query_duckdb"
  /\ missed_sales_merged' = QueryMissed(missed_sales_file, customer_file)
  /\ actual_sales_merged' = QueryActual(sales_file, customer_file)
  /\ pc' = "merge_postal"
  /\ UNCHANGED <<files, loaded, missed_sales_filtered, missed_sales_clean,
                 actual_sales_clean, missed_sales_by_time_reason,
                 missed_sales_by_customer_type, actual_sales_by_customer_type,
                 missed_sales_by_city, actual_sales_by_city>>

\* Lines 277-278: the coordinates of each row's postal code are attached.
MergePostalCodes ==
  /\ pc = "merge_postal"
  /\ missed_sales_merged' = merge_left(missed_sales_merged, postal_code_data)
  /\ actual_sales_merged' = merge_left(actual_sales_merged, postal_code_data)
  /\ pc' = "fill_coordinates"
  /\ UNCHANGED <<files, loaded, missed_sales_filtered, missed_sales_clean,
                 actual_sales_clean, missed_sales_by_time_reason,
                 missed_sales_by_customer_type, actual_sales_by_customer_type,
                 missed_sales_by_city, actual_sales_by_city>>

\* Lines 281-284: missing coordinates become 0.
FillMissingCoordinates ==
  /\ pc = "fill_coordinates"
  /\ missed_sales_merged' = FillCoordinates(missed_sales_merged)
  /\ actual_sales_merged' = FillCoordinates(actual_sales_merged)
  /\ pc' = "filter_geo"
  /\ UNCHANGED <<files, loaded, missed_sales_filtered, missed_sales_clean,
                 actual_sales_clean, missed_sales_by_time_reason,
                 missed_sales_by_customer_type, actual_sales_by_customer_type,
                 missed_sales_by_city, actual_sales_by_city>>

\* Lines 287-288: the rows with both coordinates other than 0.
FilterGeolocation ==
  /\ pc = "filter_geo"
  /\ missed_sales_clean' = FilterGeo(missed_sales_merged)
  /\ actual_sales_clean' = FilterGeo(actual_sales_merged)
  /\ pc' = "group_city_geo"
  /\ UNCHANGED <<files, loaded, missed_sales_filtered,
                 missed_sales_by_time_reason, missed_sales_merged,
                 actual_sales_merged, missed_sales_by_customer_type,
                 actual_sales_by_customer_type, missed_sales_by_city,
                 actual_sales_by_city>>

\* Lines 297-298: the tables of the map, without their marker sizes.
GroupSalesByCityGeo ==
  /\ pc = "group_city_geo"
  /\ missed_sales_by_city' =
       GroupByCityGeo(missed_sales_clean, "AantalBesteld")
  /\ actual_sales_by_city' =
       GroupByCityGeo(actual_sales_clean, "SaleQuantity")
  /\ pc' = "marker_size"
  /\ UNCHANGED <<files, loaded, missed_sales_filtered, missed_sales_clean,
                 actual_sales_clean, missed_sales_by_time_reason,
                 missed_sales_merged, actual_sales_merged,
                 missed_sales_by_customer_type, actual_sales_by_customer_type>>

\* Lines 301-302: the marker sizes; the script stops with TypeError at the
\* first total that is no number.
ComputeMarkerSize ==
  /\ pc = "marker_size"
  /\ IF MarkerSizeRaises(missed_sales_by_city)
     THEN /\ pc' = "aborted"
          /\ UNCHANGED <<missed_sales_by_city, actual_sales_by_city>>
     ELSE IF MarkerSizeRaises(actual_sales_by_city)
     THEN /\ pc' = "aborted"
          /\ missed_sales_by_city' = AddMarkerSize(missed_sales_by_city)
          /\ UNCHANGED actual_sales_by_city
     ELSE /\ pc' = "done"
          /\ missed_sales_by_city' = AddMarkerSize(missed_sales_by_city)
          /\ actual_sales_by_city' = AddMarkerSize(actual_sales_by_city)
  /\ UNCHANGED <<files, loaded, missed_sales_filtered, missed_sales_clean,
                 actual_sales_clean, missed_sales_by_time_reason,
                 missed_sales_merged, actual_sales_merged,
                 missed_sales_by_customer_type, actual_sales_by_customer_type>>

Next ==
  \/ ConvertDates
  \/ FilterMissedFlag
  \/ TranslateReasons
  \/ CleanMissedSales
  \/ GroupMissedByTimeReason
  \/ MergeCustomers
  \/ TranslateCustomerTypes
  \/ GroupSalesByCustomerType
  \/ GroupSalesByCity
  \/ CastToString
  \/ QueryDuckDB
  \/ MergePostalCodes
  \/ FillMissingCoordinates
  \/ FilterGeolocation
  \/ GroupSalesByCityGeo
  \/ ComputeMarkerSize

Spec == Init /\ [][Next]_vars

(***************************************************************************)
(* The script as functions of the files: each output table, from the files *)
(* it is computed from.                                                    *)
(***************************************************************************)
\* Lines 67-114: the cleaned missed sales.
MissedCleanOf(mf) == CleanMissed(TranslateReason(FilterFlag(ConvertDate(mf))))

\* Lines 67-124: MissedByMonthReason.
MissedByTimeReasonOf(mf) == GroupByTimeReason(MissedCleanOf(mf))

\* Lines 152, 172: the missed sales joined to the customers.
MissedMergedOf(mf, cf) ==
  TranslateCustomerType(merge_inner(MissedCleanOf(mf), cf))

\* Lines 155, 173: the actual sales joined to the customers.
ActualMergedOf(sf, cf) ==
  TranslateCustomerType(merge_inner(ConvertDate(sf), cf))

\* Line 180: ByCustomerType of the missed sales.
MissedByCustomerTypeOf(mf, cf) ==
  GroupByCustomerType(MissedMergedOf(mf, cf), "AantalBesteld")

\* Line 181: ByCustomerType of the actual sales.
ActualByCustomerTypeOf(sf, cf) ==
  GroupByCustomerType(ActualMergedOf(sf, cf), "SaleQuantity")

\* Line 215: ByCity of the missed sales.
MissedByCityOf(mf, cf) ==
  GroupByCity(MissedMergedOf(mf, cf), "AantalBesteld")

\* Line 216: ByCity of the actual sales.
ActualByCityOf(sf, cf) ==
  GroupByCity(ActualMergedOf(sf, cf), "SaleQuantity")

\* Lines 249-287: the missed sales that have coordinates.
MissedGeoCleanOf(mf, cf, pf) ==
  FilterGeo(FillCoordinates(merge_left(QueryMissed(mf, cf), CastPostal(pf))))

\* Lines 249-288: the actual sales that have coordinates.
ActualGeoCleanOf(sf, cf, pf) ==
  FilterGeo(FillCoordinates(merge_left(QueryActual(sf, cf), CastPostal(pf))))

\* Line 297: ByCityWithGeo of the missed sales, without the marker sizes.
MissedByCityGeoOf(mf, cf, pf) ==
  GroupByCityGeo(MissedGeoCleanOf(mf, cf, pf), "AantalBesteld")

\* Line 298: ByCityWithGeo of the actual sales, without the marker sizes.
ActualByCityGeoOf(sf, cf, pf) ==
  GroupByCityGeo(ActualGeoCleanOf(sf, cf, pf), "SaleQuantity")

(***************************************************************************)
(* Vocabulary of the properties.                                           *)
(***************************************************************************)
\* The positions of the script, in its order.
Positions ==
  <<"convert_dates", "filter_flag", "translate_reason", "clean_missed",
    "group_time_reason", "merge_customers", "translate_customer_type",
    "group_customer_type", "group_city", "cast_strings", "query_duckdb",
    "merge_postal", "fill_coordinates", "filter_geo", "group_city_geo",
    "marker_size", "done">>

PositionOf(p) ==
  IF p = "aborted" THEN Len(Positions)
  ELSE CHOOSE i \in DOMAIN Positions : Positions[i] = p

\* The script has run the step at position p.
Past(p) == PositionOf(pc) > PositionOf(p)

\* df without its i-th row.
RemoveAt(df, i) == SubSeq(df, 1, i - 1) \o SubSeq(df, i + 1, Len(df))

RECURSIVE SumColumn(_, _)
\* The sum of the numbers of column col over the rows of a grouped table.
SumColumn(rows, col) ==
  IF rows = {} THEN 0
  ELSE LET r == CHOOSE x \in rows : TRUE
       IN r[col].v + SumColumn(rows \ {r}, col)

RECURSIVE SumQuantity(_, _, _)
\* The sum of the parsed quantities of column col over the rows of df at
\* the indices T, all of them parseable.
SumQuantity(df, col, T) ==
  IF T = {} THEN 0
  ELSE LET i == CHOOSE x \in T : TRUE
       IN to_numeric(df[i][col]).v + SumQuantity(df, col, T \ {i})

\* The row has a CustomerNbr that no row of the customer file has.
Unmatched(row, cf) == \A j \in DOMAIN cf : cf[j].CustomerNbr # row.CustomerNbr

Months == {Period(2024, 1), Period(2024, 2)}

\* The missed-sale rows C1 counts for month m: flag 1, a parseable Date in m,
\* a Reason as read from the file, a parseable quantity.
CountedInMonth(mf, m) ==
  {i \in DOMAIN mf :
     /\ mf[i].GEMISTEVERKOOPFLG = N(1)
     /\ to_period(to_datetime(mf[i].Date)) = m
     /\ ~isna(mf[i].Reason)
     /\ ~isna(to_numeric(mf[i].AantalBesteld))}

(***************************************************************************)
(* C1.  For every month m, the MissedByMonthReason totals of m over all    *)
(* reasons add up to the sum of AantalBesteld over the missed-sale rows    *)
(* with flag 1, a parseable Date in m, a non-null Reason as read from the  *)
(* input and a parseable quantity.                                         *)
(***************************************************************************)
C1_MonthTotalsMatchInput ==
  Past("group_time_reason") =>
    \A m \in Months :
      SumColumn({r \in missed_sales_by_time_reason : r.DatePeriod = m},
                "AantalBesteld")
      = SumQuantity(missed_sales_file, "AantalBesteld",
                    CountedInMonth(missed_sales_file, m))

(***************************************************************************)
(* C2.  A sale-event row whose CustomerNbr matches no customer contributes *)
(* zero to every grouped output table: removing the row changes none of    *)
(* MissedByMonthReason, the ByCustomerType, ByCity and ByCityWithGeo       *)
(* tables.                                                                 *)
(***************************************************************************)
\* The tables computed after the join to the customers are those of the
\* files without the unmatched missed-sale row i.
MissedJoinedTablesWithout(i) ==
  LET mf == RemoveAt(missed_sales_file, i) IN
  /\ Past("group_customer_type") =>
       missed_sales_by_customer_type = MissedByCustomerTypeOf(mf, customer_file)
  /\ pc = "cast_strings" =>
       missed_sales_by_city = MissedByCityOf(mf, customer_file)
  /\ pc = "marker_size" =>
       missed_sales_by_city = MissedByCityGeoOf(mf, customer_file, postal_code_file)

\* The same, without the unmatched actual-sale row i.
ActualJoinedTablesWithout(i) ==
  LET sf == RemoveAt(sales_file, i) IN
  /\ Past("group_customer_type") =>
       actual_sales_by_customer_type = ActualByCustomerTypeOf(sf, customer_file)
  /\ pc = "cast_strings" =>
       actual_sales_by_city = ActualByCityOf(sf, customer_file)
  /\ pc = "marker_size" =>
       actual_sales_by_city = ActualByCityGeoOf(sf, customer_file, postal_code_file)

C2_UnmatchedRowsCountNowhere ==
  /\ \A i \in DOMAIN missed_sales_file :
       Unmatched(missed_sales_file[i], customer_file) =>
         /\ MissedJoinedTablesWithout(i)
         /\ Past("group_time_reason") =>
              missed_sales_by_time_reason =
                MissedByTimeReasonOf(RemoveAt(missed_sales_file, i))
  /\ \A i \in DOMAIN sales_file :
       Unmatched(sales_file[i], customer_file) => ActualJoinedTablesWithout(i)

\* C2 as amended: an unmatched sale-event row contributes zero to the six
\* tables computed after a join to the customers (the ByCustomerType, ByCity
\* and ByCityWithGeo tables); MissedByMonthReason is computed without a join.
C2_UnmatchedRowsCountInNoJoinedTable ==
  /\ \A i \in DOMAIN missed_sales_file :
       Unmatched(missed_sales_file[i], customer_file) => MissedJoinedTablesWithout(i)
  /\ \A i \in DOMAIN sales_file :
       Unmatched(sales_file[i], customer_file) => ActualJoinedTablesWithout(i)

\* A flagged, dated, translatable missed sale and an actual sale without a
\* customer, next to sales that have one, when the map tables are grouped.
C2_Witness ==
  /\ pc = "marker_size"
  /\ \E i \in DOMAIN missed_sales_file :
       /\ Unmatched(missed_sales_file[i], customer_file)
       /\ i \in CountedInMonth(missed_sales_file, Period(2024, 1))
       /\ map_dict(reason_translation, missed_sales_file[i].Reason) # NaN
  /\ \E i \in DOMAIN sales_file : Unmatched(sales_file[i], customer_file)
  /\ missed_sales_by_customer_type # {}
  /\ actual_sales_by_customer_type # {}
  /\ missed_sales_by_city # {}
  /\ actual_sales_by_city # {}

(***************************************************************************)
(* C3.  In each ByCustomerType table the total of a translated type T, and *)
(* in each ByCity table the total of a city C, is the sum of the quantity  *)
(* over all events (missed: with flag 1) whose CustomerNbr matches a       *)
(* customer of that type (city); nothing else about the event, such as its *)
(* Date or Reason being present, decides whether it is counted.            *)
(* Stated for files whose quantities are all numbers.                      *)
(***************************************************************************)
\* The total of the group of key cell k of a grouped table keyed by column
\* col, 0 without one.
TotalOf(tbl, col, k) ==
  IF \E r \in tbl : r[col] = k
  THEN (CHOOSE r \in tbl : r[col] = k).Total
  ELSE N(0)

\* The sum of column qty over the events in ev whose customer, a row of cf,
\* has k in column col.
SumOfMatching(ev, qty, cf, col, k) ==
  N(SumQuantity(ev, qty,
                {i \in DOMAIN ev :
                   \E j \in DOMAIN cf : /\ cf[j].CustomerNbr = ev[i].CustomerNbr
                                        /\ cf[j][col] = k}))

AllNumeric(df, col) == \A i \in DOMAIN df : df[i][col].t = "num"

C3_TotalsCountEveryMatchingEvent ==
  LET flagged == SelectSeq(missed_sales_file, LAMBDA r : r.GEMISTEVERKOOPFLG = N(1))
      cf == TranslateCustomerType(customer_file)
  IN (/\ AllNumeric(missed_sales_file, "AantalBesteld")
      /\ AllNumeric(sales_file, "SaleQuantity")) =>
     /\ Past("group_customer_type") =>
          \A j \in DOMAIN cf :
            LET T == cf[j].CustomerTypeTranslated IN
            /\ TotalOf(missed_sales_by_customer_type, "CustomerTypeTranslated", T)
               = SumOfMatching(flagged, "AantalBesteld", cf,
                               "CustomerTypeTranslated", T)
            /\ TotalOf(actual_sales_by_customer_type, "CustomerTypeTranslated", T)
               = SumOfMatching(sales_file, "SaleQuantity", cf,
                               "CustomerTypeTranslated", T)
     /\ pc = "cast_strings" =>
          \A j \in DOMAIN cf :
            LET C == cf[j].CustomerCity IN
            /\ TotalOf(missed_sales_by_city, "CustomerCity", C)
               = SumOfMatching(flagged, "AantalBesteld", cf, "CustomerCity", C)
            /\ TotalOf(actual_sales_by_city, "CustomerCity", C)
               = SumOfMatching(sales_file, "SaleQuantity", cf, "CustomerCity", C)

(***************************************************************************)
(* C4.  Both label translations are total, deterministic and idempotent:   *)
(* every label of the input has a translated label, which is the one the   *)
(* dictionary lookup gives, and translating the translated label gives it  *)
(* again.                                                                  *)
(***************************************************************************)
\* The positions at which the merged frames hold CustomerTypeTranslated.
HasTranslatedType ==
  pc \in {"group_customer_type", "group_city", "cast_strings", "query_duckdb"}

C4_TranslationsTotalAndIdempotent ==
  /\ Past("translate_reason") =>
       \A i \in DOMAIN missed_sales_filtered :
         LET raw == FilterFlag(missed_sales_file)[i].Reason
             out == missed_sales_filtered[i].Reason
         IN ~isna(raw) =>
              /\ ~isna(out)
              /\ out = map_dict(reason_translation, raw)
              /\ map_dict(reason_translation, out) = out
  /\ HasTranslatedType =>
       \A i \in DOMAIN actual_sales_merged :
         LET raw == actual_sales_merged[i].CustomerType
             out == actual_sales_merged[i].CustomerTypeTranslated
         IN ~isna(raw) =>
              /\ ~isna(out)
              /\ out = replace_dict(customer_type_translations, raw)
              /\ replace_dict(customer_type_translations, out) = out

(***************************************************************************)
(* C5.  In both ByCityWithGeo tables no row and no part of a total comes   *)
(* from a sale event whose customer's postal code is absent from the       *)
(* postal lookup: every row grouped has a postal code of the lookup,       *)
(* removing such an event changes neither table, and no group has          *)
(* Latitude 0 and Longitude 0.                                             *)
(***************************************************************************)
\* The postal codes of the lookup, as the join compares them.
LookupCodes(pf) == {astype_str(pf[i].CustomerPostalCode) : i \in DOMAIN pf}

\* The event has a customer whose postal code the lookup does not hold.
AbsentPostalCode(e, cf, pf) ==
  \E j \in DOMAIN cf :
    /\ cf[j].CustomerNbr = e.CustomerNbr
    /\ astype_str(cf[j].CustomerPostalCode) \notin LookupCodes(pf)

C5_NoAbsentPostalCodeInGeo ==
  /\ Past("filter_geo") =>
       /\ \A i \in DOMAIN missed_sales_clean :
            missed_sales_clean[i].CustomerPostalCode \in LookupCodes(postal_code_file)
       /\ \A i \in DOMAIN actual_sales_clean :
            actual_sales_clean[i].CustomerPostalCode \in LookupCodes(postal_code_file)
  /\ Past("group_city_geo") =>
       \A r \in missed_sales_by_city \cup actual_sales_by_city :
         ~(r.Latitude = N(0) /\ r.Longitude = N(0))
  /\ pc = "marker_size" =>
       /\ \A i \in DOMAIN missed_sales_file :
            AbsentPostalCode(missed_sales_file[i], customer_file, postal_code_file)
            => missed_sales_by_city =
                 MissedByCityGeoOf(RemoveAt(missed_sales_file, i), customer_file,
                                   postal_code_file)
       /\ \A i \in DOMAIN sales_file :
            AbsentPostalCode(sales_file[i], customer_file, postal_code_file)
            => actual_sales_by_city =
                 ActualByCityGeoOf(RemoveAt(sales_file, i), customer_file,
                                   postal_code_file)

\* A flagged missed sale and an actual sale of a customer whose postal code
\* the lookup lacks, next to sales that are on the map, when the map tables
\* are grouped.
C5_Witness ==
  /\ pc = "marker_size"
  /\ \E i \in DOMAIN missed_sales_file :
       /\ missed_sales_file[i].GEMISTEVERKOOPFLG = N(1)
       /\ AbsentPostalCode(missed_sales_file[i], customer_file, postal_code_file)
  /\ \E i \in DOMAIN sales_file :
       AbsentPostalCode(sales_file[i], customer_file, postal_code_file)
  /\ missed_sales_by_city # {}
  /\ actual_sales_by_city # {}

(***************************************************************************)
(* C6.  Every sum of every output table uses only the rows whose quantity  *)
(* is a parseable number: a row with another quantity never aborts the     *)
(* script and adds nothing to the total of its group, so each table is the *)
(* one computed from the files with every quantity made numeric first.     *)
(***************************************************************************)
\* The missed-sales file with pd.to_numeric(errors='coerce') on its quantity.
NumericMissed(mf) ==
  [i \in DOMAIN mf |-> [mf[i] EXCEPT !.AantalBesteld = to_numeric(@)]]

\* The actual-sales file with pd.to_numeric(errors='coerce') on its quantity.
NumericSales(sf) ==
  [i \in DOMAIN sf |-> [sf[i] EXCEPT !.SaleQuantity = to_numeric(@)]]

C6_SumsUseOnlyParseableQuantities ==
  LET mf == NumericMissed(missed_sales_file)
      sf == NumericSales(sales_file)
      cf == customer_file
      pf == postal_code_file
  IN /\ pc # "aborted"
     /\ Past("group_time_reason") =>
          missed_sales_by_time_reason = MissedByTimeReasonOf(mf)
     /\ Past("group_customer_type") =>
          /\ missed_sales_by_customer_type = MissedByCustomerTypeOf(mf, cf)
          /\ actual_sales_by_customer_type = ActualByCustomerTypeOf(sf, cf)
     /\ pc = "cast_strings" =>
          /\ missed_sales_by_city = MissedByCityOf(mf, cf)
          /\ actual_sales_by_city = ActualByCityOf(sf, cf)
     /\ pc = "marker_size" =>
          /\ missed_sales_by_city = MissedByCityGeoOf(mf, cf, pf)
          /\ actual_sales_by_city = ActualByCityGeoOf(sf, cf, pf)

(***************************************************************************)
(* C7.  Every row of both ByCityWithGeo tables has                         *)
(* MarkerSize = max(total / 10000, 1): the total over 10000 when the total *)
(* is at least 10000 and 1 otherwise; so MarkerSize >= 1 for every total,  *)
(* zero and negative ones included, and a row with a smaller or equal      *)
(* total has a smaller or equal MarkerSize.  Sizes are in ten-thousandths. *)
(***************************************************************************)
MapRows == missed_sales_by_city \cup actual_sales_by_city

C7_MarkerSizeFlooredAndMonotonic ==
  pc = "done" =>
    /\ \A r \in MapRows :
         /\ r.Total.v >= 10000 => r.MarkerSize.v = r.Total.v
         /\ r.Total.v < 10000 => r.MarkerSize.v = 10000
         /\ r.MarkerSize.v >= 10000
    /\ \A a, b \in MapRows :
         a.Total.v <= b.Total.v => a.MarkerSize.v <= b.MarkerSize.v

\* The map holds a total above 10000 and a negative total.
C7_Witness ==
  /\ pc = "done"
  /\ \E r \in MapRows : r.Total.v > 10000 /\ r.MarkerSize.v = r.Total.v
  /\ \E r \in MapRows : r.Total.v < 0
  /\ missed_sales_by_city # {}
  /\ actual_sales_by_city # {}

(***************************************************************************)
(* C8.  Join-then-group is order-independent: for every permutation of the *)
(* rows of any of the four files, each output table holds the same group   *)
(* keys with the same totals.                                              *)
(***************************************************************************)
\* The frames that hold the rows of df in another order.
Reorderings(df) ==
  {[i \in DOMAIN df |-> df[p[i]]] : p \in Permutations(DOMAIN df)}

C8_RowOrderIndependent ==
  LET mf == missed_sales_file
      sf == sales_file
      cf == customer_file
      pf == postal_code_file
  IN /\ Past("group_time_reason") =>
          \A m \in Reorderings(mf) :
            missed_sales_by_time_reason = MissedByTimeReasonOf(m)
     /\ Past("group_customer_type") =>
          /\ \A m \in Reorderings(mf) :
               missed_sales_by_customer_type = MissedByCustomerTypeOf(m, cf)
          /\ \A s \in Reorderings(sf) :
               actual_sales_by_customer_type = ActualByCustomerTypeOf(s, cf)
          /\ \A c \in Reorderings(cf) :
               /\ missed_sales_by_customer_type = MissedByCustomerTypeOf(mf, c)
               /\ actual_sales_by_customer_type = ActualByCustomerTypeOf(sf, c)
     /\ pc = "cast_strings" =>
          /\ \A m \in Reorderings(mf) :
               missed_sales_by_city = MissedByCityOf(m, cf)
          /\ \A s \in Reorderings(sf) :
               actual_sales_by_city = ActualByCityOf(s, cf)
          /\ \A c \in Reorderings(cf) :
               /\ missed_sales_by_city = MissedByCityOf(mf, c)
               /\ actual_sales_by_city = ActualByCityOf(sf, c)
     /\ pc = "marker_size" =>
          /\ \A m \in Reorderings(mf) :
               missed_sales_by_city = MissedByCityGeoOf(m, cf, pf)
          /\ \A s \in Reorderings(sf) :
               actual_sales_by_city = ActualByCityGeoOf(s, cf, pf)
          /\ \A c \in Reorderings(cf) :
               /\ missed_sales_by_city = MissedByCityGeoOf(mf, c, pf)
               /\ actual_sales_by_city = ActualByCityGeoOf(sf, c, pf)
          /\ \A q \in Reorderings(pf) :
               /\ missed_sales_by_city = MissedByCityGeoOf(mf, cf, q)
               /\ actual_sales_by_city = ActualByCityGeoOf(sf, cf, q)

(***************************************************************************)
(* C9.  The script never mutates the source tables: after all steps the    *)
(* loaded missed-sales, actual-sales, customer and postal-lookup frames    *)
(* hold the rows and cells they held right after loading.                  *)
(***************************************************************************)
C9_LoadedFramesUnchanged ==
  pc = "done" =>
    /\ missed_sales = missed_sales_file
    /\ actual_sales = sales_file
    /\ customer_data = customer_file
    /\ postal_code_data = postal_code_file

\* The Date cell of a loaded frame whose file holds x: parsed once the dates
\* have been converted.
DateNow(x) == IF Past("convert_dates") THEN to_datetime(x) ELSE x

\* The text cell of a loaded frame whose file holds x: cast once the text
\* columns have been cast.
TextNow(x) == IF Past("cast_strings") THEN astype_str(x) ELSE x

\* C9 as amended: the script never adds, removes or reorders the rows of a
\* loaded frame and changes no cell of it but these: Date of the missed-sales
\* and the actual-sales frame becomes the parsed timestamp (missing if it
\* does not parse), and CustomerCity and CustomerPostalCode of the customer
\* frame and CustomerPostalCode of the postal lookup become their text.
C9_LoadedFramesOnlyConverted ==
  /\ Len(missed_sales) = Len(missed_sales_file)
  /\ \A i \in DOMAIN missed_sales :
       LET now == missed_sales[i]  was == missed_sales_file[i] IN
       /\ now.CustomerNbr = was.CustomerNbr
       /\ now.AantalBesteld = was.AantalBesteld
       /\ now.GEMISTEVERKOOPFLG = was.GEMISTEVERKOOPFLG
       /\ now.Reason = was.Reason
       /\ now.Date = DateNow(was.Date)
  /\ Len(actual_sales) = Len(sales_file)
  /\ \A i \in DOMAIN actual_sales :
       LET now == actual_sales[i]  was == sales_file[i] IN
       /\ now.CustomerNbr = was.CustomerNbr
       /\ now.SaleQuantity = was.SaleQuantity
       /\ now.Date = DateNow(was.Date)
  /\ Len(customer_data) = Len(customer_file)
  /\ \A i \in DOMAIN customer_data :
       LET now == customer_data[i]  was == customer_file[i] IN
       /\ now.CustomerNbr = was.CustomerNbr
       /\ now.CustomerType = was.CustomerType
       /\ now.CustomerCity = TextNow(was.CustomerCity)
       /\ now.CustomerPostalCode = TextNow(was.CustomerPostalCode)
  /\ Len(postal_code_data) = Len(postal_code_file)
  /\ \A i \in DOMAIN postal_code_data :
       LET now == postal_code_data[i]  was == postal_code_file[i] IN
       /\ now.Latitude = was.Latitude
       /\ now.Longitude = was.Longitude
       /\ now.CustomerPostalCode = TextNow(was.CustomerPostalCode)

\* All steps have run and each conversion has changed a cell: a date, an
\* unparseable date among them, and a numeric postal code.
C9_Witness ==
  /\ pc = "done"
  /\ \E i \in DOMAIN missed_sales :
       missed_sales_file[i].Date.t = "str" /\ missed_sales[i].Date.t = "ts"
  /\ \E i \in DOMAIN missed_sales :
       missed_sales_file[i].Date.t = "str" /\ isna(missed_sales[i].Date)
  /\ actual_sales # sales_file
  /\ customer_data # customer_file
  /\ postal_code_data # postal_code_file

(***************************************************************************)
(* C10.  In both ByCityWithGeo tables each sale event (missed: flag 1)     *)
(* that matches a customer contributes at most once and to at most one     *)
(* group, whatever the postal lookup holds: the left join on               *)
(* CustomerPostalCode keeps one row per row of the query result, so the    *)
(* joined frame has as many rows as the query result.                      *)
(***************************************************************************)
OneRowPerQueryRow ==
  /\ Len(missed_sales_merged) = Len(QueryMissed(missed_sales_file, customer_file))
  /\ Len(actual_sales_merged) = Len(QueryActual(sales_file, customer_file))
  /\ Past("filter_geo") =>
       /\ Len(missed_sales_clean) <= Len(QueryMissed(missed_sales_file, customer_file))
       /\ Len(actual_sales_clean) <= Len(QueryActual(sales_file, customer_file))

C10_EventCountedAtMostOnce == Past("merge_postal") => OneRowPerQueryRow

\* No two rows of the postal lookup have the same code, as the join compares
\* the codes.
UniqueCodes(pf) ==
  \A i, j \in DOMAIN pf :
    astype_str(pf[i].CustomerPostalCode) = astype_str(pf[j].CustomerPostalCode)
    => i = j

\* C10 as amended: each matching sale event contributes at most once and to
\* at most one group when no two rows of the postal lookup have the same
\* CustomerPostalCode, compared as text.
C10_EventCountedAtMostOnceIfCodesUnique ==
  (Past("merge_postal") /\ UniqueCodes(postal_code_file)) => OneRowPerQueryRow

\* A lookup of two distinct codes has been joined to sales of both kinds,
\* some of which found their coordinates.
C10_Witness ==
  /\ pc = "fill_coordinates"
  /\ UniqueCodes(postal_code_file)
  /\ Len(postal_code_file) = 2
  /\ \E i \in DOMAIN missed_sales_merged : ~isna(missed_sales_merged[i].Latitude)
  /\ \E i \in DOMAIN actual_sales_merged : ~isna(actual_sales_merged[i].Latitude)

====
